---- MODULE Spec2Model ----
(***************************************************************************)
(* GovernanceEngine (src/engine.py) and the Streamlit handlers that drive  *)
(* it (src/app.py), over the datasets of src/mock_data.py.                 *)
(*                                                                         *)
(* Python values are tagged records: [num |-> n], [str |-> chars],         *)
(* [null |-> TRUE] (pandas NaN) and [none |-> TRUE] (Python None).         *)
(* A string is the sequence of its characters.  Fractional numbers are     *)
(* fixed-point, in hundredths (-0.2 is -20, 999.99 is 99999).              *)
(* A DataFrame is [columns |-> set of names, rows |-> sequence of rows],   *)
(* each row a function from the columns to values; its index is the        *)
(* default RangeIndex, so the row at place i of the sequence has           *)
(* position i - 1.  A regex pattern is a literal (no metacharacters).      *)
(***************************************************************************)
EXTENDS Integers, Sequences, FiniteSets, TLC

VARIABLES data_dict, rules_config, results, returned, prev_returned, calls,
          trace, probe

vars == <<data_dict, rules_config, results, returned, prev_returned, calls,
          trace, probe>>

\* ---------------------------------------------------------------- bounds
MaxRules == 2
MaxRows == 2
MaxTxns == 3
MaxCalls == 2

\* ---------------------------------------------------------------- values
NaN == [null |-> TRUE]
None == [none |-> TRUE]
Num(n) == [num |-> n]
Str(s) == [str |-> s]
isnull(v) == "null" \in DOMAIN v \/ "none" \in DOMAIN v
IsNum(v) == "num" \in DOMAIN v
IsNone(v) == "none" \in DOMAIN v

Ok(rows) == [exc |-> "", rows |-> rows]
Raise(e) == [exc |-> e, rows |-> <<>>]

\* df[mask].index.tolist(): the positions of the rows a boolean mask selects, ascending;
\* a mask is the sequence of its truth values, one per row
IndexWhere(mask) ==
    SelectSeq([i \in 1..Len(mask) |-> i - 1], LAMBDA p : mask[p + 1])

\* str(n) of an integer
RECURSIVE Digits(_)
Digits(n) ==
    IF n < 10 THEN <<(<<"0", "1", "2", "3", "4", "5", "6", "7", "8", "9">>)[n + 1]>>
    ELSE Digits(n \div 10) \o Digits(n % 10)

\* Series.astype(str): a string stays, a number prints, NaN becomes "nan"
astype_str(v) ==
    IF "str" \in DOMAIN v THEN v.str
    ELSE IF "num" \in DOMAIN v
         THEN (IF v.num < 0 THEN <<"-">> \o Digits(-v.num) ELSE Digits(v.num))
    ELSE IF "null" \in DOMAIN v THEN <<"n", "a", "n">>
    ELSE <<"N", "o", "n", "e">>

\* Series.str.match(pattern): re.match, anchored at the start of the string
str_match(s, pattern) ==
    Len(pattern) <= Len(s) /\ SubSeq(s, 1, Len(pattern)) = pattern

\* Series.str.contains(pattern, regex=True): re.search, a match anywhere
str_contains(s, pattern) ==
    \E k \in 0..(Len(s) - Len(pattern)) : SubSeq(s, k + 1, k + Len(pattern)) = pattern

\* a numeric comparison of a column with a scalar raises on a string cell or on None
Comparable(df, column, arg) ==
    /\ ~IsNone(arg)
    /\ \A i \in 1..Len(df.rows) : IsNum(df.rows[i][column]) \/ isnull(df.rows[i][column])

\* ---------------------------------------------------------- Check Library
_check_not_null(df, column) ==
    IF column \notin df.columns THEN Ok(<<>>)
    ELSE Ok(IndexWhere([i \in 1..Len(df.rows) |-> LET row == df.rows[i] IN isnull(row[column])]))

_check_regex_match(df, column, pattern) ==
    IF column \notin df.columns THEN Raise("KeyError")
    ELSE IF ~("str" \in DOMAIN pattern) THEN Raise("TypeError")
    ELSE Ok(IndexWhere([i \in 1..Len(df.rows) |-> LET row == df.rows[i] IN ~str_match(astype_str(row[column]), pattern.str)]))

_check_regex_not_match(df, column, pattern) ==
    IF column \notin df.columns THEN Raise("KeyError")
    ELSE IF ~("str" \in DOMAIN pattern) THEN Raise("TypeError")
    ELSE Ok(IndexWhere([i \in 1..Len(df.rows) |-> LET row == df.rows[i] IN str_contains(astype_str(row[column]), pattern.str)]))

\* _check_range with the bounds excluded (<= and >= for < and >)
_check_range_exclusive(df, column, min_val, max_val) ==
    IF column \notin df.columns THEN Raise("KeyError")
    ELSE IF ~Comparable(df, column, min_val) \/ ~Comparable(df, column, max_val)
         THEN Raise("TypeError")
    ELSE Ok(IndexWhere([i \in 1..Len(df.rows) |-> LET row == df.rows[i] IN
                IsNum(row[column])
                /\ (row[column].num <= min_val.num \/ row[column].num >= max_val.num)]))

_check_range(df, column, min_val, max_val) ==
    IF column \notin df.columns THEN Raise("KeyError")
    ELSE IF ~Comparable(df, column, min_val) \/ ~Comparable(df, column, max_val)
         THEN Raise("TypeError")
    ELSE Ok(IndexWhere([i \in 1..Len(df.rows) |-> LET row == df.rows[i] IN
                IsNum(row[column])
                /\ (row[column].num < min_val.num \/ row[column].num > max_val.num)]))

_check_greater_than(df, column, value) ==
    IF column \notin df.columns THEN Raise("KeyError")
    ELSE IF ~Comparable(df, column, value) THEN Raise("TypeError")
    ELSE Ok(IndexWhere([i \in 1..Len(df.rows) |-> LET row == df.rows[i] IN
                IsNum(row[column]) /\ row[column].num <= value.num]))

_check_set(df, column, value_set) ==
    IF column \notin df.columns THEN Raise("KeyError")
    ELSE IF IsNone(value_set) THEN Raise("TypeError")
    ELSE Ok(IndexWhere([i \in 1..Len(df.rows) |-> LET row == df.rows[i] IN row[column] \notin value_set.set]))

\* fillna(0) on a numeric cell of the merged frame
Fill0(v) == IF isnull(v) THEN 0 ELSE v.num

\* _check_inventory_calculation without fillna(0): a sku with no sale has sold_qty NaN,
\* so expected_end is NaN and differs from every end count
_check_inventory_calculation_nofill(data, df) ==
    IF "pos_transactions" \notin DOMAIN data THEN Ok(<<>>)
    ELSE LET pos == data["pos_transactions"]
             keys == {pos.rows[j]["sku"] : j \in 1..Len(pos.rows)} \ {NaN}
             sales_agg == [k \in keys |->
                 Cardinality({j \in 1..Len(pos.rows) : pos.rows[j]["sku"] = k})]
         IN  Ok(IndexWhere([i \in 1..Len(df.rows) |-> LET row == df.rows[i] IN
                    IF row["sku"] \in keys
                    THEN row["end_count_realtime"].num
                           # row["start_count_daily"].num - sales_agg[row["sku"]]
                    ELSE TRUE]))

_check_inventory_calculation(data, df) ==
    IF "pos_transactions" \notin DOMAIN data THEN Ok(<<>>)
    ELSE LET pos_df == data["pos_transactions"]
             need == {"sku", "start_count_daily", "end_count_realtime"}
         IN  IF "sku" \notin pos_df.columns \/ ~(need \subseteq df.columns)
             THEN Raise("KeyError")
             ELSE LET \* groupby("sku").size(): one entry per key present, NaN keys dropped
                      keys == {pos_df.rows[j]["sku"] : j \in 1..Len(pos_df.rows)} \ {NaN}
                      sales_agg == [k \in keys |->
                          Cardinality({j \in 1..Len(pos_df.rows) : pos_df.rows[j]["sku"] = k})]
                      \* merge(how="left").fillna(0)
                      sold_qty(row) == IF row["sku"] \in keys THEN sales_agg[row["sku"]] ELSE 0
                      expected_end(row) == Fill0(row["start_count_daily"]) - sold_qty(row)
                  IN  Ok(IndexWhere([i \in 1..Len(df.rows) |-> LET row == df.rows[i] IN
                             Fill0(row["end_count_realtime"]) # expected_end(row)]))

SentimentThreshold == -20

_check_sentiment_correlation(df) ==
    IF "avg_sentiment" \notin df.columns THEN Raise("KeyError")
    ELSE IF ~Comparable(df, "avg_sentiment", Num(SentimentThreshold)) THEN Raise("TypeError")
    ELSE Ok(IndexWhere([i \in 1..Len(df.rows) |-> LET row == df.rows[i] IN
                IsNum(row["avg_sentiment"]) /\ row["avg_sentiment"].num < SentimentThreshold]))

\* ------------------------------------------------------ Validation Engine
\* dict.get(key): None when the key is absent
Get(kwargs, key) == IF key \in DOMAIN kwargs THEN kwargs[key] ELSE None

\* the expectation types the routing of run_validation has a branch for
Routed == {"expect_column_values_to_be_between",
           "expect_column_values_to_not_match_regex",
           "expect_column_values_to_be_in_set",
           "expect_column_values_to_be_greater_than",
           "expect_inventory_calculation_match",
           "expect_sentiment_abandonment_correlation"}

\* failed_rows left unbound before the routing: the read after it raises
failed_rows_unbound == Raise("UnboundLocalError")

\* failed_rows = [] before the routing
failed_rows_init == Ok(<<>>)

\* the routing: failed_rows starts empty and only a branch taken replaces it
Dispatch(data, df, rule) ==
    LET exp_type == rule.expectation_type
        col == rule.column
        kwargs == rule.kwargs
    IN  IF exp_type = "expect_column_values_to_be_between"
        THEN _check_range(df, col, Get(kwargs, "min_value"), Get(kwargs, "max_value"))
        ELSE IF exp_type = "expect_column_values_to_not_match_regex"
        THEN _check_regex_not_match(df, col, Get(kwargs, "regex"))
        ELSE IF exp_type = "expect_column_values_to_be_in_set"
        THEN _check_set(df, col, Get(kwargs, "value_set"))
        ELSE IF exp_type = "expect_column_values_to_be_greater_than"
        THEN _check_greater_than(df, col, Get(kwargs, "value"))
        ELSE IF exp_type = "expect_inventory_calculation_match"
        THEN _check_inventory_calculation(data, df)
        ELSE IF exp_type = "expect_sentiment_abandonment_correlation"
        THEN _check_sentiment_correlation(df)
        ELSE failed_rows_init

\* BuildResult with the status test off by one (FAIL only from two failed rows on)
BuildResult_offByOne(rule, failed_rows) ==
    [rule_id |-> rule.id,
     table |-> rule.table,
     column |-> IF rule.column = "None" THEN "Multi-Column" ELSE rule.column,
     description |-> rule.business_description,
     status |-> IF Len(failed_rows) <= 1 THEN "PASS" ELSE "FAIL",
     failed_count |-> Len(failed_rows),
     severity |-> rule.severity,
     failed_rows |-> failed_rows]

\* the result record appended for a rule
BuildResult(rule, failed_rows) ==
    [rule_id |-> rule.id,
     table |-> rule.table,
     column |-> IF rule.column = "None" THEN "Multi-Column" ELSE rule.column,
     description |-> rule.business_description,
     status |-> IF Len(failed_rows) = 0 THEN "PASS" ELSE "FAIL",
     failed_count |-> Len(failed_rows),
     severity |-> rule.severity,
     failed_rows |-> failed_rows]

\* the loop of run_validation from rule i on, acc the results appended so far;
\* an exception leaves the loop at the rule that raised it
RECURSIVE RunLoop(_, _, _, _)
RunLoop(data, rules, i, acc) ==
    IF i > Len(rules) THEN [results |-> acc, exc |-> "", at |-> 0]
    ELSE LET rule == rules[i]
         IN  IF rule.table \notin DOMAIN data
             THEN RunLoop(data, rules, i + 1, acc)
             ELSE LET out == Dispatch(data, data[rule.table], rule)
                  IN  IF out.exc # ""
                      THEN [results |-> acc, exc |-> out.exc, at |-> i]
                      ELSE RunLoop(data, rules, i + 1,
                                   Append(acc, BuildResult(rule, out.rows)))

\* run_validation without the reset of self.results
ResultsOnEntry_keep(old) == old

\* self.results = [] on entry
ResultsOnEntry(old) == <<>>

\* the Trace Record handler: a fresh GovernanceEngine, then eng.get_record_trace(search_id);
\* GovernanceEngine defines no get_record_trace, so the attribute lookup raises
\* and the handler shows neither a final status nor a step
get_record_trace(search_id) ==
    [record_id |-> search_id, outcome |-> "AttributeError",
     steps |-> <<>>, final_status |-> "none"]

\* ------------------------------------------------------------------ inputs
SeqsUpTo(S, n) == UNION {[1..k -> S] : k \in 0..n}
InjectiveSeqsUpTo(S, n) ==
    {q \in SeqsUpTo(S, n) : \A i, j \in 1..Len(q) : i # j => q[i] # q[j]}

SKU_999 == Str(<<"S", "K", "U", "_", "9", "9", "9">>)
SKU_888 == Str(<<"S", "K", "U", "_", "8", "8", "8">>)
TXN_100 == Str(<<"T", "X", "N", "_", "1", "0", "0">>)
TXN_101 == Str(<<"T", "X", "N", "_", "1", "0", "1">>)
TXN_LOST == Str(<<"T", "X", "N", "_", "L", "O", "S", "T">>)

EmptyKwargs == [k \in {} |-> None]

Rule(id, table, column, exp_type, kwargs, severity, description) ==
    [id |-> id, table |-> table, column |-> column, expectation_type |-> exp_type,
     kwargs |-> kwargs, severity |-> severity, business_description |-> description]

\* pos_transactions as get_mock_data builds it
pos_df ==
    [columns |-> {"txn_id", "sku", "amount"},
     rows |-> << [txn_id |-> TXN_100, sku |-> SKU_999, amount |-> Num(99999)],
                 [txn_id |-> TXN_101, sku |-> SKU_999, amount |-> Num(99999)],
                 [txn_id |-> TXN_LOST, sku |-> SKU_999, amount |-> Num(-50000)] >>]

\* erp_inventory as get_mock_data builds it
inventory_df ==
    [columns |-> {"sku", "start_count_daily", "end_count_realtime"},
     rows |-> << [sku |-> SKU_999, start_count_daily |-> Num(100), end_count_realtime |-> Num(95)],
                 [sku |-> SKU_888, start_count_daily |-> Num(50), end_count_realtime |-> Num(50)] >>]

\* gold_brand_health as get_mock_data builds it
dashboard_df ==
    [columns |-> {"avg_sentiment"}, rows |-> << [avg_sentiment |-> Num(-34)] >>]

\* social_stream, three of its rows
social_df ==
    [columns |-> {"content", "sentiment_score"},
     rows |-> << [content |-> Str(<<"o", "k">>), sentiment_score |-> Num(10)],
                 [content |-> Str(<<"x", "a">>), sentiment_score |-> Num(-90)],
                 [content |-> NaN, sentiment_score |-> Num(0)] >>]

\* the store of get_mock_data
MockStore ==
    [t \in {"social_stream", "pos_transactions", "erp_inventory", "gold_brand_health"} |->
        IF t = "social_stream" THEN social_df
        ELSE IF t = "pos_transactions" THEN pos_df
        ELSE IF t = "erp_inventory" THEN inventory_df
        ELSE dashboard_df]

\* a store with data gaps: social_stream without sentiment_score, no POS and no dashboard table
GapStore ==
    [t \in {"social_stream", "erp_inventory"} |->
        IF t = "social_stream"
        THEN [columns |-> {"content"},
              rows |-> << [content |-> Str(<<"a">>)], [content |-> Str(<<"x", "a">>)] >>]
        ELSE inventory_df]

BaseStores == {MockStore, GapStore}

\* a registry's rules, one of each expectation type and one on an unknown table
RulePool ==
    { Rule("score_range", "social_stream", "sentiment_score",
           "expect_column_values_to_be_between",
           [min_value |-> Num(-100), max_value |-> Num(100)], "WARNING", "score in range"),
      Rule("no_panic", "social_stream", "content",
           "expect_column_values_to_not_match_regex",
           [regex |-> Str(<<"a">>)], "CRITICAL", "no prohibited words"),
      Rule("known_text", "social_stream", "content",
           "expect_column_values_to_be_in_set",
           [value_set |-> [set |-> {Str(<<"o", "k">>), Str(<<"a">>)}]], "INFO", "known content"),
      Rule("positive_amount", "pos_transactions", "amount",
           "expect_column_values_to_be_greater_than",
           [value |-> Num(0)], "CRITICAL", "amount is positive"),
      Rule("no_threshold", "social_stream", "sentiment_score",
           "expect_column_values_to_be_greater_than",
           EmptyKwargs, "INFO", "score above a threshold"),
      Rule("leak", "erp_inventory", "None",
           "expect_inventory_calculation_match",
           EmptyKwargs, "CRITICAL", "inventory reconciles"),
      Rule("crisis", "gold_brand_health", "None",
           "expect_sentiment_abandonment_correlation",
           EmptyKwargs, "WARNING", "sentiment is not alarming"),
      Rule("has_text", "social_stream", "content",
           "expect_column_values_to_not_be_null",
           EmptyKwargs, "WARNING", "content is present"),
      Rule("text_shape", "social_stream", "content",
           "expect_column_values_to_match_regex",
           [regex |-> Str(<<"a">>)], "INFO", "content has the shape"),
      Rule("auto_gen_age_limit", "social_stream", "sentiment_score",
           "expect_column_values_to_be_less_than",
           [value |-> Num(100)], "INFO", "score under 100"),
      Rule("ghost", "customers", "age",
           "expect_column_values_to_be_between",
           [min_value |-> Num(0), max_value |-> Num(100)], "INFO", "age in range") }

\* registries: ordered, ids unique
RegistryInputs ==
    {[data |-> d, rules |-> q] : d \in BaseStores, q \in InjectiveSeqsUpTo(RulePool, MaxRules)}

\* one-column frames of social_stream, and one rule on them
ContentValues == {Str(<<"a">>), Str(<<"x", "a">>), NaN, Num(7)}
ScoreValues == {Num(-21), Num(-20), Num(0), Num(10), Num(11), NaN}
RangeArgs == {<<0, 10>>, <<10, 10>>, <<-20, 0>>}
Patterns == {Str(<<"a">>), Str(<<"n">>)}

ColumnFrames ==
    {[columns |-> {"content"}, rows |-> rs] :
        rs \in SeqsUpTo({[content |-> v] : v \in ContentValues}, MaxRows)}
    \cup
    {[columns |-> {"sentiment_score"}, rows |-> rs] :
        rs \in SeqsUpTo({[sentiment_score |-> v] : v \in ScoreValues}, MaxRows)}

ColumnRules ==
    {Rule("r", "social_stream", "sentiment_score", "expect_column_values_to_be_between",
          [min_value |-> Num(a[1]), max_value |-> Num(a[2])], "WARNING", "d") : a \in RangeArgs}
    \cup
    {Rule("r", "social_stream", "content", t, [regex |-> p], "CRITICAL", "d") :
        t \in {"expect_column_values_to_not_match_regex", "expect_column_values_to_match_regex"},
        p \in Patterns}
    \cup
    { Rule("r", "social_stream", "content", "expect_column_values_to_be_in_set",
           [value_set |-> [set |-> {Str(<<"a">>)}]], "INFO", "d"),
      Rule("r", "social_stream", "sentiment_score", "expect_column_values_to_be_greater_than",
           [value |-> Num(0)], "INFO", "d"),
      Rule("r", "social_stream", "content", "expect_column_values_to_not_be_null",
           EmptyKwargs, "INFO", "d"),
      Rule("r", "social_stream", "sentiment_score", "expect_column_values_to_be_less_than",
           [value |-> Num(100)], "INFO", "d") }

ColumnInputs ==
    {[data |-> [t \in {"social_stream"} |-> f], rules |-> <<r>>] :
        f \in ColumnFrames, r \in ColumnRules}

\* inventories and POS tables for the reconciliation rule, POS possibly absent
InventoryRows ==
    {[sku |-> s, start_count_daily |-> Num(c[1]), end_count_realtime |-> Num(c[2])] :
        s \in {SKU_999, SKU_888}, c \in {<<100, 95>>, <<100, 97>>, <<50, 50>>}}
PosRows == {[txn_id |-> TXN_100, sku |-> s, amount |-> Num(99999)] : s \in {SKU_999, SKU_888}}

InventoryFrames ==
    {[columns |-> {"sku", "start_count_daily", "end_count_realtime"}, rows |-> rs] :
        rs \in SeqsUpTo(InventoryRows, MaxRows)}
PosFrames ==
    {[columns |-> {"txn_id", "sku", "amount"}, rows |-> rs] : rs \in SeqsUpTo(PosRows, MaxTxns)}

LeakRule ==
    Rule("leak", "erp_inventory", "None", "expect_inventory_calculation_match",
         EmptyKwargs, "CRITICAL", "inventory reconciles")

InventoryInputs ==
    {[data |-> [t \in {"erp_inventory"} |-> inv], rules |-> <<LeakRule>>] :
        inv \in InventoryFrames}
    \cup
    {[data |-> [t \in {"erp_inventory", "pos_transactions"} |->
                   IF t = "erp_inventory" THEN inv ELSE pos],
      rules |-> <<LeakRule>>] : inv \in InventoryFrames, pos \in PosFrames}

\* the engines checked: registries over the base stores, single rules over one-column
\* frames, and the reconciliation rule over inventories and POS tables
Inputs == RegistryInputs \cup ColumnInputs \cup InventoryInputs

SearchIds == {TXN_LOST, TXN_100}

\* ------------------------------------------------------------------ actions
NoReturn == [kind |-> "none", rows |-> <<>>, at |-> 0]
NoTrace == [record_id |-> None, outcome |-> "none", steps |-> <<>>, final_status |-> "none"]
NoProbe == [check |-> "none", column |-> "None", arg |-> None, out |-> Ok(<<>>)]

\* GovernanceEngine(data_dict, rules_config)
Init ==
    /\ \E in \in Inputs : data_dict = in.data /\ rules_config = in.rules
    /\ results = <<>>
    /\ returned = NoReturn
    /\ prev_returned = NoReturn
    /\ calls = 0
    /\ trace = NoTrace
    /\ probe = NoProbe

\* engine.run_validation()
RunValidation ==
    /\ calls < MaxCalls
    /\ LET run == RunLoop(data_dict, rules_config, 1, ResultsOnEntry(results))
       IN  /\ results' = run.results
           /\ returned' = IF run.exc = ""
                          THEN [kind |-> "DataFrame", rows |-> run.results, at |-> 0]
                          ELSE [kind |-> run.exc, rows |-> <<>>, at |-> run.at]
    /\ prev_returned' = returned
    /\ calls' = calls + 1
    /\ UNCHANGED <<data_dict, rules_config, trace, probe>>

\* the Trace Record button of the Data Investigator tab
TraceRecord ==
    /\ \E search_id \in SearchIds : trace' = get_record_trace(search_id)
    /\ UNCHANGED <<data_dict, rules_config, results, returned, prev_returned, calls, probe>>

Next == RunValidation \/ TraceRecord

Spec == Init /\ [][Next]_vars

\* ------------------------------------------- the checks called on their own
\* calls of the six column checks on social_stream, with the arguments a rule would carry
CheckCalls ==
    {[check |-> "_check_not_null", column |-> "content", arg |-> None]}
    \cup
    {[check |-> c, column |-> "content", arg |-> p] :
        c \in {"_check_regex_match", "_check_regex_not_match"}, p \in Patterns}
    \cup
    {[check |-> "_check_range", column |-> "sentiment_score",
      arg |-> [min_val |-> Num(a[1]), max_val |-> Num(a[2])]] : a \in RangeArgs}
    \cup
    {[check |-> "_check_greater_than", column |-> "sentiment_score", arg |-> Num(0)],
     [check |-> "_check_set", column |-> "content", arg |-> [set |-> {Str(<<"a">>)}]]}

ApplyCheck(df, call) ==
    CASE call.check = "_check_not_null" -> _check_not_null(df, call.column)
      [] call.check = "_check_regex_match" -> _check_regex_match(df, call.column, call.arg)
      [] call.check = "_check_regex_not_match" -> _check_regex_not_match(df, call.column, call.arg)
      [] call.check = "_check_range" ->
             _check_range(df, call.column, call.arg.min_val, call.arg.max_val)
      [] call.check = "_check_greater_than" -> _check_greater_than(df, call.column, call.arg)
      [] call.check = "_check_set" -> _check_set(df, call.column, call.arg)

InitChecks ==
    /\ \E f \in ColumnFrames : data_dict = [t \in {"social_stream"} |-> f]
    /\ rules_config = <<>>
    /\ results = <<>>
    /\ returned = NoReturn
    /\ prev_returned = NoReturn
    /\ calls = 0
    /\ trace = NoTrace
    /\ probe = NoProbe

CallCheck ==
    /\ \E call \in CheckCalls :
          probe' = [check |-> call.check, column |-> call.column, arg |-> call.arg,
                    out |-> ApplyCheck(data_dict["social_stream"], call)]
    /\ UNCHANGED <<data_dict, rules_config, results, returned, prev_returned, calls, trace>>

NextChecks == CallCheck

SpecChecks == InitChecks /\ [][NextChecks]_vars

\* ------------------------------------------------------------------ claims
InSeq(x, s) == \E i \in 1..Len(s) : s[i] = x
RuleOf(id) == CHOOSE r \in {rules_config[k] : k \in 1..Len(rules_config)} : r.id = id
Resolves(rule) == rule.table \in DOMAIN data_dict
Positions(df) == 0..(Len(df.rows) - 1)
\* seq lists exactly the positions of S, each once
Lists(seq, S) == (\A p \in S : InSeq(p, seq)) /\ (\A i \in 1..Len(seq) : seq[i] \in S)
                 /\ Len(seq) = Cardinality(S)

\* C1: a call of run_validation returns exactly one result per rule whose table is in
\* the store, in registry order, and none for a rule whose table is absent; the
\* evaluation of the remaining rules is never aborted.
C1_OneResultPerResolvableRule ==
    calls > 0 =>
        /\ returned.kind = "DataFrame"
        /\ [i \in 1..Len(returned.rows) |-> returned.rows[i].rule_id]
             = [i \in 1..Len(SelectSeq(rules_config, Resolves)) |->
                    SelectSeq(rules_config, Resolves)[i].id]

\* C2: in every result, status is FAIL iff failed_rows is non-empty, otherwise PASS,
\* and failed_count is the number of entries of failed_rows.
C2_StatusMatchesFailedRows ==
    \A i \in 1..Len(results) :
        /\ results[i].status \in {"PASS", "FAIL"}
        /\ results[i].status = "FAIL" <=> results[i].failed_rows # <<>>
        /\ results[i].failed_count = Len(results[i].failed_rows)

\* a run that produced a FAIL result with two failed rows and a PASS result with none
C2_Witness ==
    \E i, j \in 1..Len(results) :
        /\ results[i].status = "FAIL" /\ results[i].failed_count = 2
        /\ results[j].status = "PASS" /\ results[j].failed_count = 0

\* the inventory rows the reconciliation equation rejects, sold_qty counted over pos
Mismatches(inv, pos_rows) ==
    {p \in Positions(inv) :
        LET row == inv.rows[p + 1]
            sold_qty == Cardinality({j \in 1..Len(pos_rows) : pos_rows[j]["sku"] = row["sku"]})
        IN  row["end_count_realtime"].num # row["start_count_daily"].num - sold_qty}

IsLeakResult(r) ==
    /\ RuleOf(r.rule_id).expectation_type = "expect_inventory_calculation_match"
    /\ r.table = "erp_inventory"

ThreeSalesOf999(pos) == Len(pos.rows) = 3 /\ \A j \in 1..3 : pos.rows[j]["sku"] = SKU_999

Blocked(record_id) ==
    \E i \in 1..Len(results) :
        LET df == data_dict[results[i].table]
        IN  /\ results[i].status = "FAIL"
            /\ "txn_id" \in df.columns
            /\ \E k \in 1..Len(results[i].failed_rows) :
                  df.rows[results[i].failed_rows[k] + 1]["txn_id"] = record_id

\* C4: the trace of a record blocked by an upstream gate has exactly one FAILED step,
\* no SUCCESS step after it, and a final_status equal to the status of its last step,
\* FAILED.
C4_BlockedRecordTrace ==
    (trace.outcome # "none" /\ Blocked(trace.record_id)) =>
        /\ trace.outcome = "Trace"
        /\ Cardinality({k \in 1..Len(trace.steps) : trace.steps[k].status = "FAILED"}) = 1
        /\ \A k, m \in 1..Len(trace.steps) :
              (trace.steps[k].status = "FAILED" /\ m > k)
                  => trace.steps[m].status # "SUCCESS"
        /\ trace.final_status = "FAILED"
        /\ trace.final_status = trace.steps[Len(trace.steps)].status

IsUnknown(rule) == rule.expectation_type \notin Routed

\* C5: a rule of an unrecognised expectation type whose table resolves never makes
\* run_validation raise (returned.at is the place of the rule that raised, 0 for none),
\* and once the loop has passed it its result is there with status PASS, failed_count 0
\* and no failed rows, whatever the dataset holds.
C5_UnknownKindPasses ==
    calls > 0 =>
        \A i \in 1..Len(rules_config) :
            (IsUnknown(rules_config[i]) /\ Resolves(rules_config[i])) =>
                /\ returned.at # i
                /\ (returned.at = 0 \/ returned.at > i) =>
                      \E k \in 1..Len(results) :
                          /\ results[k].rule_id = rules_config[i].id
                          /\ results[k].status = "PASS"
                          /\ results[k].failed_count = 0
                          /\ results[k].failed_rows = <<>>

\* an unrouted rule evaluated after a rule that failed, and reported PASS
C5_Witness ==
    /\ calls > 0
    /\ Len(rules_config) = 2 /\ Len(results) = 2
    /\ rules_config[2].expectation_type = "expect_column_values_to_be_less_than"
    /\ results[1].status = "FAIL"
    /\ results[2].rule_id = rules_config[2].id /\ results[2].status = "PASS"

SixChecks == {"_check_not_null", "_check_regex_match", "_check_regex_not_match",
              "_check_range", "_check_greater_than", "_check_set"}

\* C6: each of the six column checks, called with a column the dataset does not have,
\* returns an empty violation set and does not raise.
C6_MissingColumnIsVacuous ==
    (probe.check \in SixChecks /\ probe.column \notin data_dict["social_stream"].columns)
        => probe.out = Ok(<<>>)

\* C7: on the same column and pattern, a row with a non-null value is a violation of
\* _check_regex_not_match iff it is not a violation of _check_regex_match.
C7_RegexInverse ==
    [][(/\ probe.check = "_check_regex_match"
        /\ probe'.check = "_check_regex_not_match"
        /\ probe'.column = probe.column /\ probe'.arg = probe.arg
        /\ probe.out.exc = "" /\ probe'.out.exc = "")
       => \A p \in Positions(data_dict["social_stream"]) :
              ~isnull(data_dict["social_stream"].rows[p + 1][probe.column])
                 => (InSeq(p, probe'.out.rows) <=> ~InSeq(p, probe.out.rows))]_vars

\* C8: for min <= max, a row is in the violation set of the range check iff its value
\* is below min or above max; a value equal to min or to max is never a violation.
C8_RangeInclusive ==
    \A i \in 1..Len(results) :
        LET rule == RuleOf(results[i].rule_id)
            df == data_dict[rule.table]
            lo == rule.kwargs["min_value"].num
            hi == rule.kwargs["max_value"].num
        IN  (rule.expectation_type = "expect_column_values_to_be_between" /\ lo <= hi) =>
                \A p \in Positions(df) :
                    LET v == df.rows[p + 1][rule.column]
                    IN  /\ InSeq(p, results[i].failed_rows)
                            <=> (IsNum(v) /\ (v.num < lo \/ v.num > hi))
                        /\ (IsNum(v) /\ (v.num = lo \/ v.num = hi))
                            => ~InSeq(p, results[i].failed_rows)

\* a between result with min = max: the row at the bound passes, the other row is flagged
C8_Witness ==
    \E i \in 1..Len(results) :
        LET rule == RuleOf(results[i].rule_id)
            df == data_dict[rule.table]
        IN  /\ rule.expectation_type = "expect_column_values_to_be_between"
            /\ rule.kwargs["min_value"] = rule.kwargs["max_value"]
            /\ Len(df.rows) = 2
            /\ df.rows[1][rule.column] = rule.kwargs["min_value"]
            /\ results[i].failed_rows = <<1>>

\* C9: successive calls of run_validation on unchanged inputs return the same thing,
\* the stored results hold one call's results only, and no call changes the datasets
\* or the registry.
C9_Deterministic ==
    /\ [](calls >= 2 => returned = prev_returned)
    /\ [](returned.kind = "DataFrame" =>
             (results = returned.rows /\ Len(results) <= Len(rules_config)))
    /\ [][data_dict' = data_dict /\ rules_config' = rules_config]_vars

\* a second call that returned the same two results as the first
C9_Witness ==
    /\ calls = 2
    /\ returned.kind = "DataFrame" /\ Len(returned.rows) = 2
    /\ returned = prev_returned

\* the check of the library an expectation type names
LibraryCheck(rule, df) ==
    LET t == rule.expectation_type
    IN  CASE t = "expect_column_values_to_not_be_null" -> _check_not_null(df, rule.column)
          [] t = "expect_column_values_to_match_regex" ->
                 _check_regex_match(df, rule.column, Get(rule.kwargs, "regex"))
          [] OTHER -> Dispatch(data_dict, df, rule)

LibraryKinds == Routed \cup {"expect_column_values_to_not_be_null",
                             "expect_column_values_to_match_regex"}

\* C10: every one of the eight checks is reached through some expectation type: a rule
\* of each kind gets a FAIL result when its dataset holds a row the check rejects.
C10_EveryCheckReachable ==
    \A i \in 1..Len(results) :
        LET rule == RuleOf(results[i].rule_id)
        IN  (/\ rule.expectation_type \in LibraryKinds
             /\ LibraryCheck(rule, data_dict[rule.table]).rows # <<>>)
                => results[i].status = "FAIL"

====
